---- MODULE Spec2Model ----
(***************************************************************************)
(* Model of src/shiji.py: the marketplace monitor.                         *)
(*                                                                         *)
(* Two execution contexts exist in the program: the GUI thread, which runs *)
(* every ProductMonitor handler, and the single WorkerThread (a QThread),  *)
(* whose run() performs one fetch.  The worker's signals reach the GUI     *)
(* thread as queued events, in emission order.  Prices of normalized       *)
(* products are held in hundredths of the currency unit: the feed's        *)
(* integer minor-unit price p stands for the decimal p/100, which the      *)
(* card label prints with two decimals and save_product_cache parses back. *)
(***************************************************************************)
EXTENDS Integers, Sequences, FiniteSets, TLC

\* ---------------------------------------------------------------- bounds
MaxReq     == 2   \* fetch requests (timer ticks and clicks) in one run of Spec
MaxReqData == 2   \* the same, in one run of SpecData
MaxItems   == 2   \* raw items the feed serves in one run
MaxDialogs == 1   \* modal boxes open at once
MaxBatch   == 3   \* raw items of the one response in a run of SpecBatch
MaxClock   == 1   \* ticks of the clock in one run of SpecHist

\* ---------------------------------------------------- program constants
AutoLoadPages == 3      \* WorkerThread.auto_load_pages
HttpOk        == 200    \* the status code run() accepts
DefaultRefreshInterval == 5   \* ProductMonitor.refresh_interval, in seconds
DefaultCooldown == 2000       \* ProductMonitor.api_cooldown, in milliseconds

None   == "None"
Names  == {"A", "B"}

\* Thresholds the input dialog of toggle_price_alert is answered with: its
\* range is 0..10000 (line 1266), in the units of the prices.
Thresholds(kind) ==
    CASE kind = "batch" -> {0, 500}
      [] kind = "store" -> {500}
      [] OTHER          -> {900}

\* Values the refresh spinner is set to: its range is 5..300 (line 593).
Intervals == {5, 6}

VARIABLES
    \* ProductMonitor (GUI thread)
    product_cache,          \* id -> card, in insertion order: Seq of [id, name, price]
    min_price_products,     \* name -> [id, name, price, image, url, timestamp]
    last_refresh_ids,
    last_refresh_count,
    total_products_count,
    grid,                   \* the cards of the product grid, in display order
    new_products_count,     \* update_products' local, shown in the status line
    refresh_btn,            \* refresh_btn.isEnabled()
    load_more_btn,          \* load_more_btn.isEnabled()
    is_paused,
    timer_active,           \* self.timer.isActive()
    timer_interval,         \* self.timer.interval(), in seconds
    refresh_interval,
    remaining_time,
    price_alert_enabled,
    price_alert_threshold,
    api_cooldown,           \* the cooldown of auto_load_more, in milliseconds
    dialogs,                \* stack of open modal dialogs (nested event loops), top last
    pending_shots,          \* QTimer.singleShot timers of auto_load_more not yet fired
    disk_min,               \* min_price_history.json
    disk_cache,             \* product_cache.json
    disk_settings,          \* settings.json
    files,                  \* store -> "missing" | "valid" | "garbled" | "mistyped"
    started,                \* the process is up: ProductMonitor() was constructed
    \* WorkerThread
    next_id,
    is_refresh,
    auto_load_more,
    auto_load_pages,
    wpc,                    \* "idle" | "begin" | "fetching" | "exiting"
    request,                \* nextId of the request in flight
    inflight,               \* requests sent and not yet answered
    queue,                  \* signals emitted by the worker, not yet delivered
    \* environment and history
    feed,                   \* which responses the feed may give: see FeedResponses
    req_left,               \* fetch requests the environment may still make
    items_left,             \* raw items the feed may still serve
    now,                    \* time.time(), in ticks of the clock
    observed,               \* name -> prices normalized for it since the last clear
    credit,                 \* 3 per refresh_data + 1 per load_more_data - fetches issued
    last_result,            \* outcome of the last finished fetch: "none" | "ok" | "fail"
    mode,                   \* the request that last left Idle: "none" | "refresh" | "continue"
    starter                 \* what started the run about to begin: "none" | "request" | "shot"

vars == << product_cache, min_price_products, last_refresh_ids, last_refresh_count,
           total_products_count, grid, new_products_count, refresh_btn, load_more_btn,
           is_paused, timer_active, timer_interval, refresh_interval, remaining_time,
           price_alert_enabled, price_alert_threshold, api_cooldown,
           dialogs, pending_shots, disk_min, disk_cache, disk_settings, files,
           started,
           next_id, is_refresh, auto_load_more, auto_load_pages, wpc, request,
           inflight, queue, feed, req_left, items_left, now, observed, credit,
           last_result, mode, starter >>

guiData  == << product_cache, last_refresh_ids, last_refresh_count,
               total_products_count, grid, new_products_count, disk_min, disk_cache,
               disk_settings, files >>
guiCtl   == << refresh_btn, load_more_btn, is_paused, timer_active, timer_interval,
               refresh_interval, remaining_time,
               price_alert_enabled, price_alert_threshold, api_cooldown, dialogs, pending_shots >>
wrkFlags == << next_id, is_refresh, auto_load_more, auto_load_pages >>
wrkRun   == << wpc, request, inflight >>
envVars  == << feed, req_left, items_left, now, started >>

\* ------------------------------------------------------------- the feed
\* A raw item of the response's data.data list has c2cItemsId, the name and img
\* of its first detail entry, and price in minor units.  ok = FALSE stands for
\* an item whose normalization raises (no detail entry, a null name or price).
\* A response: net (requests.post raised), status, code, hasData (data is an
\* object, not null), items, nextId; at is the reading of time.time() while
\* the response is processed, which WorkerFinish fills in.
Response(net, status, code, hasData, items, nextId) ==
    [net |-> net, status |-> status, code |-> code, hasData |-> hasData,
     items |-> items, nextId |-> nextId, at |-> 0]

Failures ==
    { Response(TRUE, 0, 0, FALSE, <<>>, None),          \* connection error, timeout
      Response(FALSE, 500, 0, FALSE, <<>>, None),       \* HTTP status other than 200
      Response(FALSE, HttpOk, 1, TRUE, <<>>, "t1"),     \* code != 0, with a nextId
      Response(FALSE, HttpOk, 1, FALSE, <<>>, None) }   \* code != 0, data null

Item(i, n, p) ==
    [c2cItemsId |-> i, name |-> n, img |-> "//img", price |-> p, ok |-> TRUE]

\* The c2cItemsId of a raw item that has none.
Absent == "<absent>"

CtlBatches == { <<>>, << Item("1", "A", 800) >> }

CtlFeed ==
    Failures \cup
    { Response(FALSE, HttpOk, 0, TRUE, b, t) : b \in CtlBatches, t \in {None, "t1"} }

SeqsUpTo(S, n) == UNION { [1..k -> S] : k \in 0..n }

DataItems == { Item("1", "A", 1000), Item("1", "A", 800), Item("2", "A", 800) }

DataFeed ==
    { Response(TRUE, 0, 0, FALSE, <<>>, None) } \cup
    { Response(FALSE, HttpOk, 0, TRUE, b, None) : b \in SeqsUpTo(DataItems, MaxItems) }

\* The feed of SpecHist: every kind of failure, one of them a code != 0
\* response that carries an item, and single pages of up to MaxItems items.
HistFeed ==
    { Response(TRUE, 0, 0, FALSE, <<>>, None),
      Response(FALSE, 500, 0, FALSE, <<>>, None),
      Response(FALSE, HttpOk, 1, TRUE, << Item("2", "A", 700) >>, None),
      Response(FALSE, HttpOk, 1, FALSE, <<>>, None) } \cup
    { Response(FALSE, HttpOk, 0, TRUE, b, None) : b \in SeqsUpTo(DataItems, MaxItems) }

\* An item whose processing raises: detailDtoList is empty.
BadItem == [c2cItemsId |-> "4", name |-> "B", img |-> "//img", price |-> 100,
            ok |-> FALSE]

\* The prices of the spec's scenario, 4.99, 5.00 and 5.01, and a malformed item.
BatchItems == { Item("1", "A", 499), Item("2", "A", 500), Item("3", "A", 501),
                BadItem }

BatchFeed ==
    { Response(FALSE, HttpOk, 0, TRUE, b, None) : b \in SeqsUpTo(BatchItems, MaxBatch) }

StoreItems == { Item("1", "A", 1000), Item("2", "A", 800) }

StoreFeed ==
    { Response(FALSE, HttpOk, 0, TRUE, b, None) : b \in SeqsUpTo(StoreItems, MaxItems) }

SchedFeed ==
    { Response(TRUE, 0, 0, FALSE, <<>>, None),
      Response(FALSE, HttpOk, 0, TRUE, <<>>, None),
      Response(FALSE, HttpOk, 0, TRUE, <<>>, "t1") }

\* One-item pages of one name: listing 1 at 10.00, listings 2 and 3 at 8.00.
RestartItems == { Item("1", "A", 1000), Item("2", "A", 800), Item("3", "A", 800) }

RestartFeed ==
    { Response(FALSE, HttpOk, 0, TRUE, << it >>, None) : it \in RestartItems }

\* Pages of up to MaxItems items, two of them listings that carry no
\* c2cItemsId.
IdentItems == { Item("1", "A", 800), Item(Absent, "A", 800), Item(Absent, "B", 1000) }

IdentFeed ==
    { Response(FALSE, HttpOk, 0, TRUE, b, None) : b \in SeqsUpTo(IdentItems, MaxItems) }

\* An empty last page.
CountFeed == { Response(FALSE, HttpOk, 0, TRUE, <<>>, None) }

\* One item per page, at 8.00 or at 10.00, with or without a further page.
AlertFeed ==
    { Response(FALSE, HttpOk, 0, TRUE, << it >>, t) :
        it \in { Item("1", "A", 800), Item("2", "A", 1000) }, t \in {None, "t1"} }

FeedResponses(kind) ==
    CASE kind = "ctl"   -> CtlFeed
      [] kind = "data"  -> DataFeed
      [] kind = "batch" -> BatchFeed
      [] kind = "store" -> StoreFeed
      [] kind = "sched" -> SchedFeed
      [] kind = "alert" -> AlertFeed
      [] kind = "hist"  -> HistFeed
      [] kind = "live"  -> SchedFeed
      [] kind = "count" -> CountFeed
      [] kind = "ident" -> IdentFeed
      [] kind = "restart" -> RestartFeed

\* ------------------------------------------------- pure parts of the code
EmptyMap == [n \in {} |-> None]

Signal(sig, products) == [sig |-> sig, products |-> products]

\* The detail link built at lines 1165 and 1504
DetailUrl(id) == << "itemsId=", id >>

\* process_response, line 1496: str(item.get('c2cItemsId', '')), the empty
\* string for an item that has no c2cItemsId.
ProductId(raw) == IF raw = Absent THEN "" ELSE raw

\* process_response, lines 1496-1505
Normalize(item) ==
    [id |-> ProductId(item.c2cItemsId), name |-> item.name, price |-> item.price,
     image |-> << "https:", item.img >>,
     detail_url |-> DetailUrl(ProductId(item.c2cItemsId))]

MinPriceRecord(product, t) ==
    [id |-> product.id, name |-> product.name, price |-> product.price,
     image |-> product.image, url |-> product.detail_url, timestamp |-> t]

SetMinPrice(mp, product, t) ==
    [n \in DOMAIN mp \cup {product.name} |->
        IF n = product.name THEN MinPriceRecord(product, t) ELSE mp[n]]

\* Mutant: every observation overwrites the record.
ConsiderCandidateLast(mp, product, t) == SetMinPrice(mp, product, t)

\* Mutant: the comparison is reversed.
ConsiderCandidateHigher(mp, product, t) ==
    IF product.name \notin DOMAIN mp \/ product.price > mp[product.name].price
    THEN SetMinPrice(mp, product, t)
    ELSE mp

\* Mutant: an equal price replaces the record too.
ConsiderCandidateLowerOrEqual(mp, product, t) ==
    IF product.name \notin DOMAIN mp \/ product.price <= mp[product.name].price
    THEN SetMinPrice(mp, product, t)
    ELSE mp

\* process_response, lines 1508-1517: the min-price update for one product
ConsiderCandidate(mp, product, t) ==
    IF product.name \notin DOMAIN mp \/ product.price < mp[product.name].price
    THEN SetMinPrice(mp, product, t)
    ELSE mp

\* Mutant: an item that raises ends the loop.
RECURSIVE ProcessItemsAborting(_, _, _)
ProcessItemsAborting(items, i, acc) ==
    IF i > Len(items) \/ ~items[i].ok THEN acc
    ELSE LET product == Normalize(items[i])
         IN  ProcessItemsAborting(items, i + 1,
                 [products |-> Append(acc.products, product),
                  mp |-> ConsiderCandidate(acc.mp, product, acc.at), at |-> acc.at])

\* process_response, lines 1493-1523: the loop over the items; an item whose
\* processing raises is logged and skipped.
RECURSIVE ProcessItems(_, _, _)
ProcessItems(items, i, acc) ==
    IF i > Len(items) THEN acc
    ELSE IF ~items[i].ok THEN ProcessItems(items, i + 1, acc)
    ELSE LET product == Normalize(items[i])
         IN  ProcessItems(items, i + 1,
                 [products |-> Append(acc.products, product),
                  mp |-> ConsiderCandidate(acc.mp, product, acc.at), at |-> acc.at])

\* Mutant: the items of a response are processed whatever its code is.
ProcessResponseIgnoringCode(data, mp) ==
    IF ~data.hasData
    THEN [raised |-> TRUE, products |-> <<>>, mp |-> mp]
    ELSE LET r == ProcessItems(data.items, 1,
                               [products |-> <<>>, mp |-> mp, at |-> data.at])
         IN  [raised |-> data.code # 0, products |-> r.products, mp |-> r.mp]

\* process_response: [raised, products, mp]
ProcessResponse(data, mp) ==
    IF data.code # 0 \/ ~data.hasData
    THEN [raised |-> TRUE, products |-> <<>>, mp |-> mp]
    ELSE LET r == ProcessItems(data.items, 1,
                               [products |-> <<>>, mp |-> mp, at |-> data.at])
         IN  [raised |-> FALSE, products |-> r.products, mp |-> r.mp]

\* Mutant: an empty nextId is taken for a further page.
HasMoreAlways(nextId) == TRUE

\* run(), line 1465: `if next_id:`
HasMore(nextId) == nextId # None

\* Mutant: the page budget is counted down to zero.
AutoContinueToZero(alm, pages) == alm /\ pages > 0

\* Mutant: a continuation is requested in either mode.
AutoContinueAnyMode(alm, pages) == pages > 1

\* run(), line 1471: whether a continuation is requested
AutoContinue(alm, pages) == alm /\ pages > 1

\* Mutant: a failed request is retried after the cooldown.
RequestFailedRetry(nid, alm, pages, mp) ==
    [signals |-> << Signal("error", <<>>), Signal("auto", <<>>) >>, failed |-> TRUE,
     next_id |-> nid, auto_load_more |-> alm, auto_load_pages |-> pages, mp |-> mp]

\* run(), lines 1481-1485: the request raised, or the status is not 200
RequestFailed(nid, alm, pages, mp) ==
    [signals |-> << Signal("error", <<>>) >>, failed |-> TRUE,
     next_id |-> nid, auto_load_more |-> alm, auto_load_pages |-> pages, mp |-> mp]

\* Mutant: a response without nextId clears the stored one.
TokenOfLastPageCleared(nid) == None

\* run(), lines 1476-1478: the branch of a response without nextId assigns
\* auto_load_more only, and self.next_id stays what it was.
TokenOfLastPage(nid) == nid

\* run(), lines 1449-1485: everything after the response arrived
RunResult(resp, nid, alm, pages, mp) ==
    IF resp.net \/ resp.status # HttpOk
    THEN RequestFailed(nid, alm, pages, mp)
    ELSE LET p    == ProcessResponse(resp, mp)
             errs == IF p.raised THEN << Signal("error", <<>>) >> ELSE <<>>
         IN  IF ~resp.hasData
             THEN \* data.get('data', {}) is None: .get raises, caught at line 1483
                  [signals |-> errs \o << Signal("error", <<>>) >>, failed |-> TRUE,
                   next_id |-> nid, auto_load_more |-> alm, auto_load_pages |-> pages,
                   mp |-> p.mp]
             ELSE IF HasMore(resp.nextId)
             THEN IF AutoContinue(alm, pages)
                  THEN [signals |-> errs \o << Signal("auto", <<>>),
                                              Signal("update", p.products) >>,
                        failed |-> p.raised,
                        next_id |-> resp.nextId, auto_load_more |-> alm,
                        auto_load_pages |-> pages - 1, mp |-> p.mp]
                  ELSE [signals |-> errs \o << Signal("update", p.products) >>,
                        failed |-> p.raised,
                        next_id |-> resp.nextId, auto_load_more |-> alm,
                        auto_load_pages |-> pages, mp |-> p.mp]
             ELSE [signals |-> errs \o << Signal("update", p.products) >>,
                   failed |-> p.raised,
                   next_id |-> TokenOfLastPage(nid), auto_load_more |-> FALSE,
                   auto_load_pages |-> pages, mp |-> p.mp]

CacheIds(cache) == { cache[i].id : i \in 1..Len(cache) }

\* add_product_card, lines 980-1100: the card shows the name and the price as
\* label texts, which save_product_cache reads back, and the picture of the
\* image URL (none for an empty URL), and opens the detail link on a click.
AddProductCard(product) ==
    [id |-> product.id, name |-> product.name, price |-> product.price,
     image |-> product.image, detail_url |-> product.detail_url]

\* Mutant: a card is added for every product of the batch.
UpsertAlwaysAppend(cache, product) == Append(cache, AddProductCard(product))

\* Mutant: a resighted id gets a card with the new name and price.
UpsertReplacing(cache, product) ==
    IF product.id \notin CacheIds(cache)
    THEN Append(cache, AddProductCard(product))
    ELSE [k \in 1..Len(cache) |->
            IF cache[k].id = product.id THEN AddProductCard(product) ELSE cache[k]]

\* Mutant: a new card evicts the cards held so far.
UpsertEvicting(cache, product) ==
    IF product.id \notin CacheIds(cache)
    THEN << AddProductCard(product) >>
    ELSE cache

\* update_products, lines 861-898: one product of the batch
Upsert(cache, product) ==
    IF product.id \notin CacheIds(cache)
    THEN Append(cache, AddProductCard(product))
    ELSE cache                      \* the existing card is only restyled

\* update_products, lines 856-898: the loop; [cache, new, updated]
RECURSIVE UpsertAll(_, _, _)
UpsertAll(products, i, acc) ==
    IF i > Len(products) THEN acc
    ELSE LET isNew == products[i].id \notin CacheIds(acc.cache)
         IN  UpsertAll(products, i + 1,
                 [cache   |-> Upsert(acc.cache, products[i]),
                  new     |-> IF isNew THEN acc.new + 1 ELSE acc.new,
                  updated |-> IF isNew THEN acc.updated ELSE acc.updated + 1])

\* Mutant: only prices strictly below the threshold alert.
AlertProductsStrict(products, enabled, threshold) ==
    IF ~enabled \/ threshold <= 0 THEN <<>>
    ELSE SelectSeq(products, LAMBDA p : p.price < threshold)

\* check_price_alerts, lines 1297-1303
AlertProducts(products, enabled, threshold) ==
    IF ~enabled \/ threshold <= 0 THEN <<>>
    ELSE SelectSeq(products, LAMBDA p : p.price <= threshold)

\* Mutant: the cards newest first, the order of refresh_layout.
RefreshLayout(cache, recent) ==
    [k \in 1..Len(cache) |-> cache[Len(cache) + 1 - k]]

\* refresh_layout_with_recent_first, lines 930-978: the cards whose id is in
\* last_refresh_ids, then the others, each group in the order of the cache.
RefreshLayoutWithRecentFirst(cache, recent) ==
    SelectSeq(cache, LAMBDA c : c.id \in recent) \o
    SelectSeq(cache, LAMBDA c : c.id \notin recent)

\* save_product_cache, lines 1146-1169
SaveCache(cache) ==
    [k \in 1..Len(cache) |->
        [id |-> cache[k].id, name |-> cache[k].name, price |-> cache[k].price,
         image |-> "", detail_url |-> DetailUrl(cache[k].id)]]

\* Mutant: a refresh keeps the nextId of the cycle before.
RequestTokenKept(isRefresh, nid) == nid

\* run(), lines 1438-1441: a refresh resets nextId before the request is built
RequestToken(isRefresh, nid) == IF isRefresh THEN None ELSE nid

\* Mutant: the timer's call is not told apart from a click.
IgnoredByPauseNever(paused, fromTimer) == FALSE

\* refresh_data, line 340: the call is ignored
IgnoredByPause(paused, fromTimer) == paused /\ fromTimer

\* Mutant: start() launches run() again although it is still running.
StartThreadAlways(pc) == "begin"

\* QThread.start() as called at lines 347, 800 and 1207: a thread that is
\* still running is left alone.
StartThread(pc) == IF pc = "idle" THEN "begin" ELSE pc

\* The three stores: settings.json, product_cache.json, min_price_history.json
Stores == {"settings", "cache", "min"}

\* The alert settings as __init__ sets them, lines 54-55
DefaultSettings ==
    [price_alert_threshold |-> 0, price_alert_enabled |-> FALSE,
     api_cooldown |-> DefaultCooldown]

\* A store file is "missing", "valid" (what a save wrote), "garbled" (not
\* JSON: json.load raises; a file truncated by open(..., 'w') is one) or, for
\* settings.json, "mistyped" (JSON with a value of the wrong type, such as
\* {"api_cooldown": null}).
DamageKinds(store) ==
    IF store = "settings" THEN {"missing", "garbled", "mistyped"}
    ELSE {"missing", "garbled"}

\* save_settings, lines 122-138: the keys written; refresh_interval is not
\* one of them (the layout keys are not modelled).
SaveSettings(enabled, threshold, cooldown) ==
    [price_alert_threshold |-> threshold, price_alert_enabled |-> enabled,
     api_cooldown |-> cooldown]

\* load_settings, lines 105-120: a file that is absent or raises leaves the
\* values __init__ has set; a mistyped api_cooldown is taken as it is.
LoadSettings(status, data) ==
    IF status = "valid" THEN data ELSE DefaultSettings

\* init_ui, line 603: `self.api_cooldown // 1000` raises TypeError on a value
\* that is not a number, and nothing catches it.
InitUiRaises(status) == status = "mistyped"

\* load_product_cache, lines 1174-1196
LoadProductCache(status, data) ==
    IF status = "valid"
    THEN [k \in 1..Len(data) |-> AddProductCard(data[k])]
    ELSE <<>>

\* Mutant: the index is not read back at startup.
LoadMinPriceProductsEmpty(status, data) == EmptyMap

\* load_min_price_products, lines 395-415
LoadMinPriceProducts(status, data) ==
    IF status = "valid" THEN data ELSE EmptyMap

\* ------------------------------------------------------------------ Init
InitWith(f, n, m) ==
    /\ product_cache = <<>>
    /\ min_price_products = EmptyMap
    /\ last_refresh_ids = {}
    /\ last_refresh_count = 0
    /\ total_products_count = 0
    /\ grid = <<>>
    /\ new_products_count = 0
    /\ refresh_btn = TRUE
    /\ load_more_btn = TRUE
    /\ is_paused = FALSE
    /\ timer_active = TRUE
    /\ timer_interval = DefaultRefreshInterval
    /\ refresh_interval = DefaultRefreshInterval
    /\ remaining_time = 0
    /\ price_alert_enabled = FALSE
    /\ price_alert_threshold = 0
    /\ api_cooldown = DefaultCooldown
    /\ dialogs = <<>>
    /\ pending_shots = 0
    /\ disk_min = EmptyMap
    /\ disk_cache = <<>>
    /\ disk_settings = DefaultSettings
    /\ files = [s \in Stores |-> "missing"]
    /\ started = TRUE
    /\ next_id = None
    /\ is_refresh = FALSE
    /\ auto_load_more = FALSE
    /\ auto_load_pages = AutoLoadPages
    /\ wpc = "idle"
    /\ request = None
    /\ inflight = 0
    /\ queue = <<>>
    /\ feed = f
    /\ req_left = n
    /\ items_left = m
    /\ now = 0
    /\ observed = [nm \in Names |-> {}]
    /\ credit = 0
    /\ last_result = "none"
    /\ mode = "none"
    /\ starter = "none"

Init == InitWith("ctl", MaxReq, MaxItems)

InitData == InitWith("data", MaxReqData, MaxItems)

\* One refresh and its one response.
InitBatch == InitWith("batch", 1, MaxBatch)

\* --------------------------------------------------------------- actions
\* The Pagination Controller is Idle: the thread is not running and no
\* continuation is scheduled (neither a cooldown timer nor an undelivered
\* auto_load_signal).
NoAutoQueued == \A i \in 1..Len(queue) : queue[i].sig # "auto"

Idle == wpc = "idle" /\ pending_shots = 0 /\ NoAutoQueued

\* In SpecLive the interval timer goes on for ever: its ticks are not
\* counted against req_left and the fetch account is not kept.
Unmetered == feed = "live"
Spend(n) == IF Unmetered THEN n ELSE n - 1
Account(c, d) == IF Unmetered THEN c ELSE c + d

\* ProductMonitor.refresh_data (lines 336-350) with WorkerThread.refresh_data
\* (lines 1528-1532) and the start() of line 347.
RefreshData ==
    /\ refresh_btn' = FALSE
    /\ load_more_btn' = FALSE
    /\ is_refresh' = TRUE
    /\ auto_load_more' = TRUE
    /\ auto_load_pages' = AutoLoadPages
    /\ wpc' = StartThread(wpc)
    /\ remaining_time' = refresh_interval
    /\ credit' = Account(credit, AutoLoadPages)
    /\ mode' = IF Idle THEN "refresh" ELSE mode
    /\ starter' = IF wpc = "idle" THEN "request" ELSE starter
    /\ UNCHANGED << next_id, request, inflight, queue >>

\* Where ticks are unmetered they are paced.  The interval (5 s or more) is
\* long against the delivery of queued signals and spans at least two fetches
\* with their cooldowns (1 to 10 s each): a tick finds the queue empty, at
\* most one cooldown timer armed, and the controller Idle or on the last page
\* of its budget.
Paced ==
    /\ queue = <<>>
    /\ pending_shots <= 1
    /\ Idle \/ auto_load_pages = 1

\* The interval timer fires: refresh_data with sender() == self.timer.
TimerTick ==
    /\ started
    /\ timer_active
    /\ req_left > 0
    /\ Unmetered => Paced
    /\ req_left' = Spend(req_left)
    /\ IF IgnoredByPause(is_paused, TRUE)
       THEN UNCHANGED << refresh_btn, load_more_btn, remaining_time, wrkFlags,
                         wrkRun, queue, credit, mode, starter >>
       ELSE RefreshData
    /\ UNCHANGED << guiData, min_price_products, is_paused, timer_active, timer_interval,
                    refresh_interval, price_alert_enabled, price_alert_threshold,
                    api_cooldown, dialogs,
                    pending_shots, feed, items_left, now, started, observed, last_result >>

\* The refresh button is clicked.
ClickRefresh ==
    /\ started
    /\ refresh_btn
    /\ dialogs = <<>>
    /\ req_left > 0
    /\ req_left' = req_left - 1
    /\ IF IgnoredByPause(is_paused, FALSE)
       THEN UNCHANGED << refresh_btn, load_more_btn, remaining_time, wrkFlags,
                         wrkRun, queue, credit, mode, starter >>
       ELSE RefreshData
    /\ UNCHANGED << guiData, min_price_products, is_paused, timer_active, timer_interval,
                    refresh_interval, price_alert_enabled, price_alert_threshold,
                    api_cooldown, dialogs,
                    pending_shots, feed, items_left, now, started, observed, last_result >>

\* ProductMonitor.load_more_data (lines 794-800): the load-more button is clicked.
ClickLoadMore ==
    /\ started
    /\ load_more_btn
    /\ dialogs = <<>>
    /\ req_left > 0
    /\ req_left' = req_left - 1
    /\ load_more_btn' = FALSE
    /\ auto_load_more' = FALSE
    /\ wpc' = StartThread(wpc)
    /\ credit' = credit + 1
    /\ mode' = IF Idle THEN "continue" ELSE mode
    /\ starter' = IF wpc = "idle" THEN "request" ELSE starter
    /\ UNCHANGED << guiData, min_price_products, refresh_btn, is_paused, timer_active,
                    timer_interval,
                    refresh_interval, remaining_time, price_alert_enabled,
                    price_alert_threshold, api_cooldown, dialogs,
                    pending_shots, next_id, is_refresh, auto_load_pages, request,
                    inflight, queue, feed, items_left, now, started, observed,
                    last_result >>

\* ProductMonitor.toggle_pause (lines 1225-1257)
TogglePause ==
    /\ started
    /\ dialogs = <<>>
    /\ is_paused' = ~is_paused
    /\ timer_active' = is_paused
    /\ timer_interval' = IF is_paused THEN refresh_interval ELSE timer_interval
    /\ remaining_time' = IF is_paused THEN refresh_interval ELSE remaining_time
    /\ UNCHANGED << guiData, min_price_products, refresh_btn, load_more_btn,
                    refresh_interval, price_alert_enabled, price_alert_threshold,
                    api_cooldown, dialogs,
                    pending_shots, wrkFlags, wrkRun, queue, envVars, observed,
                    credit, last_result, mode, starter >>

\* ProductMonitor.toggle_price_alert (lines 1259-1293): switched off; or
\* switched on and the input dialog accepted with a threshold, or cancelled.
TogglePriceAlert ==
    /\ started
    /\ dialogs = <<>>
    /\ IF price_alert_enabled
       THEN price_alert_enabled' = FALSE /\ UNCHANGED price_alert_threshold
       ELSE \/ \E t \in Thresholds(feed) :
                 price_alert_enabled' = TRUE /\ price_alert_threshold' = t
            \/ price_alert_enabled' = FALSE /\ UNCHANGED price_alert_threshold
    /\ UNCHANGED << guiData, min_price_products, refresh_btn, load_more_btn,
                    is_paused, timer_active, timer_interval, refresh_interval,
                    remaining_time, api_cooldown, dialogs, pending_shots, wrkFlags,
                    wrkRun, queue, envVars, observed, credit, last_result, mode, starter >>

\* Mutant: clearing the index clears the cards as well.
ClearMinPriceAndProducts ==
    /\ started
    /\ dialogs = <<>>
    /\ min_price_products' = EmptyMap
    /\ disk_min' = EmptyMap
    /\ files' = [files EXCEPT !.min = "valid"]
    /\ observed' = [nm \in Names |-> {}]
    /\ grid' = <<>>
    /\ product_cache' = <<>>
    /\ total_products_count' = 0
    /\ UNCHANGED << last_refresh_ids, last_refresh_count, new_products_count,
                    disk_cache, disk_settings, guiCtl, wrkFlags, wrkRun, queue,
                    envVars, credit, last_result, mode, starter >>

\* ProductMonitor.clear_min_price_history (lines 417-425), answered Yes
ClearMinPrice ==
    /\ started
    /\ dialogs = <<>>
    /\ min_price_products' = EmptyMap
    /\ disk_min' = EmptyMap
    /\ files' = [files EXCEPT !.min = "valid"]
    /\ observed' = [nm \in Names |-> {}]
    /\ UNCHANGED << product_cache, last_refresh_ids, last_refresh_count,
                    total_products_count, grid, new_products_count, disk_cache,
                    disk_settings, guiCtl,
                    wrkFlags, wrkRun, queue, envVars, credit, last_result, mode, starter >>

\* Mutant: the grid is emptied and the counter reset, the cache is kept.
ClearProductsGridOnly ==
    /\ started
    /\ dialogs = <<>>
    /\ grid' = <<>>
    /\ total_products_count' = 0
    /\ UNCHANGED << product_cache, min_price_products, last_refresh_ids,
                    last_refresh_count, new_products_count, disk_min, disk_cache,
                    disk_settings, files, guiCtl, wrkFlags,
                    wrkRun, queue, envVars, observed, credit, last_result, mode,
                    starter >>

\* ProductMonitor.clear_product_history (lines 427-441), answered Yes
ClearProducts ==
    /\ started
    /\ dialogs = <<>>
    /\ grid' = <<>>
    /\ product_cache' = <<>>
    /\ total_products_count' = 0
    /\ UNCHANGED << min_price_products, last_refresh_ids, last_refresh_count,
                    new_products_count, disk_min, disk_cache, disk_settings,
                    files, guiCtl, wrkFlags,
                    wrkRun, queue, envVars, observed, credit, last_result, mode, starter >>

\* WorkerThread.run, lines 1431-1454: the request is built and sent.
WorkerBegin ==
    /\ started
    /\ wpc = "begin"
    /\ wpc' = "fetching"
    /\ next_id' = RequestToken(is_refresh, next_id)
    /\ is_refresh' = FALSE
    /\ request' = next_id'
    /\ inflight' = inflight + 1
    /\ credit' = Account(credit, -1)
    /\ starter' = "none"
    /\ UNCHANGED << guiData, guiCtl, min_price_products, auto_load_more,
                    auto_load_pages, queue, envVars, observed, last_result, mode >>

ObservedIn(items, nm) ==
    { items[i].price : i \in { j \in 1..Len(items) : items[j].ok /\ items[j].name = nm } }

\* WorkerThread.run, lines 1449-1485: the response arrives and is processed.
WorkerFinish(resp) ==
    /\ started
    /\ wpc = "fetching"
    /\ Len(resp.items) <= items_left
    /\ items_left' = items_left - Len(resp.items)
    /\ LET r == RunResult([resp EXCEPT !.at = now], next_id, auto_load_more,
                          auto_load_pages, min_price_products)
       IN  /\ next_id' = r.next_id
           /\ auto_load_more' = r.auto_load_more
           /\ auto_load_pages' = r.auto_load_pages
           /\ min_price_products' = r.mp
           /\ queue' = queue \o r.signals
           /\ last_result' = IF r.failed THEN "fail" ELSE "ok"
           /\ observed' = IF resp.net \/ resp.status # HttpOk \/ resp.code # 0
                             \/ ~resp.hasData
                          THEN observed
                          ELSE [nm \in Names |-> observed[nm] \cup ObservedIn(resp.items, nm)]
    /\ wpc' = "exiting"
    /\ request' = None
    /\ inflight' = inflight - 1
    /\ UNCHANGED << guiData, guiCtl, is_refresh, feed, req_left, now,
                    started, credit, mode, starter >>

\* run() has returned and the thread finishes.
WorkerExit ==
    /\ started
    /\ wpc = "exiting"
    /\ wpc' = "idle"
    /\ UNCHANGED << guiData, guiCtl, min_price_products, wrkFlags, request,
                    inflight, queue, envVars, observed, credit, last_result, mode,
                    starter >>

\* ProductMonitor.auto_load_more (lines 1205-1207): the cooldown timer is set.
DeliverAuto ==
    /\ started
    /\ queue # <<>>
    /\ Head(queue).sig = "auto"
    /\ queue' = Tail(queue)
    /\ pending_shots' = pending_shots + 1
    /\ UNCHANGED << guiData, min_price_products, refresh_btn, load_more_btn,
                    is_paused, timer_active, timer_interval, refresh_interval,
                    remaining_time, price_alert_enabled,
                    price_alert_threshold, api_cooldown, dialogs, wrkFlags, wrkRun, envVars,
                    observed, credit, last_result, mode, starter >>

\* The cooldown timer fires: the lambda of line 1207 starts the thread.
ShotFire ==
    /\ started
    /\ pending_shots > 0
    /\ pending_shots' = pending_shots - 1
    /\ wpc' = StartThread(wpc)
    /\ starter' = IF wpc = "idle" THEN "shot" ELSE starter
    /\ UNCHANGED << guiData, min_price_products, refresh_btn, load_more_btn,
                    is_paused, timer_active, timer_interval, refresh_interval,
                    remaining_time, price_alert_enabled,
                    price_alert_threshold, api_cooldown, dialogs, wrkFlags, request,
                    inflight,
                    queue, envVars, observed, credit, last_result, mode >>

\* ProductMonitor.handle_error (lines 154-158): the warning box opens.
DeliverError ==
    /\ started
    /\ queue # <<>>
    /\ Head(queue).sig = "error"
    /\ Len(dialogs) < MaxDialogs
    /\ queue' = Tail(queue)
    /\ dialogs' = Append(dialogs, [kind |-> "error", products |-> <<>>,
                                   alerted |-> <<>>])
    /\ UNCHANGED << guiData, min_price_products, refresh_btn, load_more_btn,
                    is_paused, timer_active, timer_interval, refresh_interval,
                    remaining_time, price_alert_enabled,
                    price_alert_threshold, api_cooldown, pending_shots, wrkFlags, wrkRun,
                    envVars, observed, credit, last_result, mode, starter >>

\* update_products, lines 820-928: the batch is applied.
ApplyBatch(products) ==
    LET r == UpsertAll(products, 1, [cache |-> product_cache, new |-> 0, updated |-> 0])
    IN  /\ last_refresh_count' = Len(products)
        /\ last_refresh_ids' = { products[i].id : i \in 1..Len(products) }
        /\ product_cache' = r.cache
        /\ new_products_count' = r.new
        /\ grid' = RefreshLayoutWithRecentFirst(r.cache, last_refresh_ids')
        /\ total_products_count' = Len(r.cache)
        /\ disk_min' = IF DOMAIN min_price_products # {} THEN min_price_products
                       ELSE disk_min
        /\ disk_cache' = SaveCache(r.cache)
        /\ files' = [files EXCEPT !.cache = "valid",
                                  !.min = IF DOMAIN min_price_products # {}
                                          THEN "valid" ELSE @]
        /\ UNCHANGED disk_settings
        /\ refresh_btn' = TRUE
        /\ load_more_btn' = TRUE

\* ProductMonitor.update_products (lines 808-928) up to the point where it
\* returns or where show_price_alert (line 1336) opens the alert box.
DeliverUpdate ==
    /\ started
    /\ queue # <<>>
    /\ Head(queue).sig = "update"
    /\ queue' = Tail(queue)
    /\ LET products == Head(queue).products
       IN  IF products = <<>>
           THEN /\ refresh_btn' = TRUE
                /\ load_more_btn' = TRUE
                /\ UNCHANGED << guiData, dialogs >>
           ELSE IF AlertProducts(products, price_alert_enabled,
                                 price_alert_threshold) # <<>>
           THEN /\ Len(dialogs) < MaxDialogs
                /\ dialogs' = Append(dialogs,
                       [kind |-> "alert", products |-> products,
                        alerted |-> AlertProducts(products, price_alert_enabled,
                                                  price_alert_threshold)])
                /\ UNCHANGED << guiData, refresh_btn, load_more_btn >>
           ELSE /\ ApplyBatch(products)
                /\ UNCHANGED dialogs
    /\ UNCHANGED << min_price_products, is_paused, timer_active, timer_interval,
                    refresh_interval,
                    remaining_time, price_alert_enabled,
                    price_alert_threshold, api_cooldown, pending_shots, wrkFlags, wrkRun,
                    envVars, observed, credit, last_result, mode, starter >>

\* The topmost modal box is closed; an alert box returns into update_products.
CloseDialog ==
    /\ started
    /\ dialogs # <<>>
    /\ dialogs' = SubSeq(dialogs, 1, Len(dialogs) - 1)
    /\ LET top == dialogs[Len(dialogs)]
       IN  IF top.kind = "alert"
           THEN ApplyBatch(top.products)
           ELSE UNCHANGED << guiData, refresh_btn, load_more_btn >>
    /\ UNCHANGED << min_price_products, is_paused, timer_active, timer_interval,
                    refresh_interval,
                    remaining_time, price_alert_enabled,
                    price_alert_threshold, api_cooldown, pending_shots, wrkFlags,
                    wrkRun, queue,
                    envVars, observed, credit, last_result, mode, starter >>

\* Mutant: a change of the interval ends the pause.
UpdateRefreshIntervalResuming(v) ==
    /\ started
    /\ dialogs = <<>>
    /\ v # refresh_interval
    /\ refresh_interval' = v
    /\ timer_active' = TRUE
    /\ timer_interval' = v
    /\ remaining_time' = v
    /\ is_paused' = FALSE
    /\ UNCHANGED << guiData, min_price_products, refresh_btn, load_more_btn,
                    price_alert_enabled, price_alert_threshold, api_cooldown,
                    dialogs, pending_shots, wrkFlags, wrkRun, queue, envVars,
                    observed, credit, last_result, mode, starter >>

\* ProductMonitor.update_refresh_interval (lines 352-359): the spinner is set.
UpdateRefreshInterval(v) ==
    /\ started
    /\ dialogs = <<>>
    /\ v # refresh_interval
    /\ refresh_interval' = v
    /\ timer_active' = TRUE
    /\ timer_interval' = v
    /\ remaining_time' = v
    /\ UNCHANGED << guiData, min_price_products, refresh_btn, load_more_btn,
                    is_paused, price_alert_enabled, price_alert_threshold, api_cooldown,
                    dialogs, pending_shots, wrkFlags, wrkRun, queue, envVars,
                    observed, credit, last_result, mode, starter >>

\* cooldown_spinner, lines 601-606: the range 1..10 and the value shown for a
\* cooldown in milliseconds (setValue clamps to the range).
CooldownSeconds == {1, 2}
CooldownSpinner(ms) ==
    IF ms \div 1000 < 1 THEN 1
    ELSE IF ms \div 1000 > 10 THEN 10 ELSE ms \div 1000

\* ProductMonitor.update_cooldown (lines 147-152): valueChanged of the
\* cooldown spinner; the settings are saved at once.
UpdateCooldown(v) ==
    /\ started
    /\ dialogs = <<>>
    /\ v # CooldownSpinner(api_cooldown)
    /\ api_cooldown' = v * 1000
    /\ disk_settings' = SaveSettings(price_alert_enabled, price_alert_threshold,
                                     api_cooldown')
    /\ files' = [files EXCEPT !["settings"] = "valid"]
    /\ UNCHANGED << product_cache, min_price_products, last_refresh_ids,
                    last_refresh_count, total_products_count, grid,
                    new_products_count, disk_min, disk_cache, refresh_btn,
                    load_more_btn, is_paused, timer_active, timer_interval,
                    refresh_interval, remaining_time, price_alert_enabled,
                    price_alert_threshold, dialogs, pending_shots, wrkFlags,
                    wrkRun, queue, envVars, observed, credit, last_result,
                    mode, starter >>

\* settings.json written from outside the program: well-formed JSON whose
\* numbers no control of the window could have produced.
EditedSettings ==
    { [price_alert_threshold |-> 0 - 1, price_alert_enabled |-> TRUE,
       api_cooldown |-> DefaultCooldown],
      [price_alert_threshold |-> 0, price_alert_enabled |-> FALSE,
       api_cooldown |-> 1500],
      [price_alert_threshold |-> 0, price_alert_enabled |-> FALSE,
       api_cooldown |-> 500] }

EditSettings(data) ==
    /\ disk_settings # data \/ files.settings # "valid"
    /\ disk_settings' = data
    /\ files' = [files EXCEPT !["settings"] = "valid"]
    /\ UNCHANGED << product_cache, min_price_products, last_refresh_ids,
                    last_refresh_count, total_products_count, grid,
                    new_products_count, disk_min, disk_cache, guiCtl, wrkFlags,
                    wrkRun, queue, envVars, observed, credit, last_result,
                    mode, starter >>

\* Mutant: the countdown goes below zero.
UpdateCountdownNoWrap ==
    /\ started
    /\ remaining_time' = IF ~is_paused /\ timer_active
                         THEN remaining_time - 1
                         ELSE remaining_time
    /\ UNCHANGED << guiData, min_price_products, refresh_btn, load_more_btn,
                    is_paused, timer_active, timer_interval, refresh_interval,
                    price_alert_enabled, price_alert_threshold, api_cooldown,
                    dialogs, pending_shots, wrkFlags, wrkRun, queue, envVars,
                    observed, credit, last_result, mode, starter >>

\* Mutant: the countdown runs on while the scheduler is paused.
UpdateCountdownWhilePaused ==
    /\ started
    /\ remaining_time' = IF remaining_time - 1 < 0
                         THEN refresh_interval
                         ELSE remaining_time - 1
    /\ UNCHANGED << guiData, min_price_products, refresh_btn, load_more_btn,
                    is_paused, timer_active, timer_interval, refresh_interval,
                    price_alert_enabled, price_alert_threshold, api_cooldown,
                    dialogs, pending_shots, wrkFlags, wrkRun, queue, envVars,
                    observed, credit, last_result, mode, starter >>

\* ProductMonitor.update_countdown (lines 1209-1223): the one-second tick of
\* countdown_timer.  The labels it writes are not modelled.
UpdateCountdown ==
    /\ started
    /\ remaining_time' = IF ~is_paused /\ timer_active
                         THEN IF remaining_time - 1 < 0
                              THEN refresh_interval
                              ELSE remaining_time - 1
                         ELSE remaining_time
    /\ UNCHANGED << guiData, min_price_products, refresh_btn, load_more_btn,
                    is_paused, timer_active, timer_interval, refresh_interval,
                    price_alert_enabled, price_alert_threshold, api_cooldown,
                    dialogs, pending_shots, wrkFlags, wrkRun, queue, envVars,
                    observed, credit, last_result, mode, starter >>

\* ProductMonitor.__init__ (lines 36-74) and WorkerThread.__init__ (lines
\* 1422-1429) in a new process, with the store files as given.
Startup(fs, dsettings, dcache, dmin) ==
    LET st == LoadSettings(fs.settings, dsettings)
        pc == LoadProductCache(fs.cache, dcache)
        up == ~InitUiRaises(fs.settings)
        mp == IF up THEN LoadMinPriceProducts(fs.min, dmin) ELSE EmptyMap
    IN  /\ started' = up
        /\ price_alert_enabled' = st.price_alert_enabled
        /\ price_alert_threshold' = st.price_alert_threshold
        /\ api_cooldown' = st.api_cooldown
        /\ product_cache' = pc
        /\ total_products_count' = Len(pc)
        /\ grid' = IF up THEN RefreshLayoutWithRecentFirst(pc, {}) ELSE <<>>
        /\ min_price_products' = mp
        /\ observed' = [nm \in Names |->
                           IF nm \in DOMAIN mp THEN {mp[nm].price} ELSE {}]
        /\ last_refresh_ids' = {}
        /\ last_refresh_count' = 0
        /\ new_products_count' = 0
        /\ refresh_btn' = up
        /\ load_more_btn' = up
        /\ is_paused' = FALSE
        /\ timer_active' = up
        /\ timer_interval' = DefaultRefreshInterval
        /\ refresh_interval' = DefaultRefreshInterval
        /\ remaining_time' = 0
        /\ dialogs' = <<>>
        /\ pending_shots' = 0
        /\ next_id' = None
        /\ is_refresh' = FALSE
        /\ auto_load_more' = FALSE
        /\ auto_load_pages' = AutoLoadPages
        /\ wpc' = "idle"
        /\ request' = None
        /\ inflight' = 0
        /\ queue' = <<>>
        /\ credit' = 0
        /\ last_result' = "none"
        /\ mode' = "none"
        /\ starter' = "none"
        /\ UNCHANGED << feed, req_left, items_left, now >>

\* closeEvent (lines 1198-1203) saves the three stores; the program is then
\* started again.
CloseAndReopen ==
    /\ started
    /\ dialogs = <<>>
    /\ disk_min' = min_price_products
    /\ disk_cache' = SaveCache(product_cache)
    /\ disk_settings' = SaveSettings(price_alert_enabled, price_alert_threshold, api_cooldown)
    /\ files' = [s \in Stores |-> "valid"]
    /\ Startup(files', disk_settings', disk_cache', disk_min')

\* The process ends without closeEvent (killed, power loss), or has failed to
\* start; the program is started again on the files as they are.
KillAndReopen ==
    /\ UNCHANGED << disk_min, disk_cache, disk_settings, files >>
    /\ Startup(files, disk_settings, disk_cache, disk_min)

\* The process dies inside closeEvent while store s is being written: the
\* open(..., 'w') of lines 389, 1169 and 135 has truncated the file and
\* json.dump has not finished.  The stores saved before s (closeEvent saves
\* min_price_history.json, product_cache.json, settings.json in this order)
\* hold the new snapshot, the ones after s the old one.  The program is then
\* started again.
CrashInSave(s) ==
    /\ started
    /\ dialogs = <<>>
    /\ disk_min' = IF s = "min" THEN disk_min ELSE min_price_products
    /\ disk_cache' = IF s = "settings" THEN SaveCache(product_cache) ELSE disk_cache
    /\ UNCHANGED disk_settings
    /\ files' = [t \in Stores |->
                    CASE t = s -> "garbled"
                      [] t = "min" -> "valid"
                      [] t = "cache" /\ s = "settings" -> "valid"
                      [] OTHER -> files[t]]
    /\ Startup(files', disk_settings', disk_cache', disk_min')

\* A store file is deleted or overwritten from outside the program.
Damage(s, how) ==
    /\ files[s] # how
    /\ files' = [files EXCEPT ![s] = how]
    /\ UNCHANGED << product_cache, min_price_products, last_refresh_ids,
                    last_refresh_count, total_products_count, grid,
                    new_products_count, disk_min, disk_cache, disk_settings, guiCtl,
                    wrkFlags,
                    wrkRun, queue, envVars, observed, credit, last_result, mode, starter >>

\* time.time() advances.
ClockTick ==
    /\ started
    /\ now < MaxClock
    /\ now' = now + 1
    /\ UNCHANGED << guiData, guiCtl, min_price_products, wrkFlags, wrkRun, queue,
                    feed, req_left, items_left, started, observed, credit,
                    last_result, mode, starter >>

NextCtl ==
    \/ TimerTick
    \/ ClickRefresh
    \/ ClickLoadMore
    \/ TogglePause
    \/ WorkerBegin
    \/ \E resp \in FeedResponses(feed) : WorkerFinish(resp)
    \/ WorkerExit
    \/ DeliverAuto
    \/ ShotFire
    \/ DeliverError
    \/ DeliverUpdate
    \/ CloseDialog

Spec == Init /\ [][NextCtl]_vars

\* The feed of SpecData has a single page: no continuation is ever requested.
NextData ==
    \/ ClickRefresh
    \/ ClickLoadMore
    \/ TogglePriceAlert
    \/ ClearMinPrice
    \/ ClearProducts
    \/ WorkerBegin
    \/ \E resp \in FeedResponses(feed) : WorkerFinish(resp)
    \/ WorkerExit
    \/ DeliverError
    \/ DeliverUpdate
    \/ CloseDialog

SpecData == InitData /\ [][NextData]_vars

\* One response of up to MaxBatch items, well-formed or not, under every
\* setting of the price alert.
NextBatch ==
    \/ ClickRefresh
    \/ TogglePriceAlert
    \/ WorkerBegin
    \/ \E resp \in FeedResponses(feed) : WorkerFinish(resp)
    \/ WorkerExit
    \/ DeliverUpdate
    \/ CloseDialog

SpecBatch == InitBatch /\ [][NextBatch]_vars

InitIdent == InitWith("ident", 1, MaxItems)

\* One response of items with and without a c2cItemsId.
SpecIdent == InitIdent /\ [][NextBatch]_vars

InitSched == InitWith("sched", MaxReq, MaxItems)

\* The scheduler: pause and resume, the interval changed, ticks and clicks.
NextSched ==
    \/ TimerTick
    \/ ClickRefresh
    \/ ClickLoadMore
    \/ TogglePause
    \/ \E v \in Intervals : UpdateRefreshInterval(v)
    \/ WorkerBegin
    \/ \E resp \in FeedResponses(feed) : WorkerFinish(resp)
    \/ WorkerExit
    \/ DeliverAuto
    \/ ShotFire
    \/ DeliverError
    \/ DeliverUpdate
    \/ CloseDialog

SpecSched == InitSched /\ [][NextSched]_vars

InitAlert == InitWith("alert", 1, MaxItems)

\* One refresh cycle with the price alert: pages keep arriving while the
\* alert box of an earlier page is open.
NextAlert ==
    \/ ClickRefresh
    \/ TogglePriceAlert
    \/ WorkerBegin
    \/ \E resp \in FeedResponses(feed) : WorkerFinish(resp)
    \/ WorkerExit
    \/ DeliverAuto
    \/ ShotFire
    \/ DeliverUpdate
    \/ CloseDialog

SpecAlert == InitAlert /\ [][NextAlert]_vars

\* One refresh cycle of one-item pages with either store cleared at any
\* point of it.
NextClear ==
    \/ NextAlert
    \/ ClearMinPrice
    \/ ClearProducts

SpecClear == InitAlert /\ [][NextClear]_vars

InitStore == InitWith("store", 1, MaxItems)

\* The stores across restarts: one refresh, the settings changed, the
\* program closed, killed or crashed while saving, the files damaged.
NextStore ==
    \/ ClickRefresh
    \/ TogglePriceAlert
    \/ \E v \in Intervals : UpdateRefreshInterval(v)
    \/ WorkerBegin
    \/ \E resp \in FeedResponses(feed) : WorkerFinish(resp)
    \/ WorkerExit
    \/ DeliverUpdate
    \/ CloseAndReopen
    \/ KillAndReopen
    \/ \E s \in Stores : CrashInSave(s)
    \/ \E s \in Stores : \E how \in DamageKinds(s) : Damage(s, how)

SpecStore == InitStore /\ [][NextStore]_vars

InitConfig == InitWith("config", 0, 0)

\* The configuration: the controls of the window, settings.json saved,
\* written from outside and loaded by the next start.
NextConfig ==
    \/ TogglePriceAlert
    \/ TogglePause
    \/ \E v \in Intervals : UpdateRefreshInterval(v)
    \/ \E v \in CooldownSeconds : UpdateCooldown(v)
    \/ \E data \in EditedSettings : EditSettings(data)
    \/ CloseAndReopen
    \/ KillAndReopen

SpecConfig == InitConfig /\ [][NextConfig]_vars

InitCount == InitWith("count", MaxReq, 0)

\* The countdown: the one-second ticks, the interval timer, refresh clicks,
\* pause and resume, the interval changed, over fetches of an empty last page.
NextCount ==
    \/ UpdateCountdown
    \/ TimerTick
    \/ ClickRefresh
    \/ TogglePause
    \/ \E v \in Intervals : UpdateRefreshInterval(v)
    \/ WorkerBegin
    \/ \E resp \in FeedResponses(feed) : WorkerFinish(resp)
    \/ WorkerExit
    \/ DeliverUpdate

SpecCount == InitCount /\ [][NextCount]_vars

InitRestart == InitWith("restart", MaxReq, MaxItems)

\* Fetches before and after a restart: the program closed or killed and
\* started again between refreshes of one-item pages.
NextRestart ==
    \/ ClickRefresh
    \/ WorkerBegin
    \/ \E resp \in FeedResponses(feed) : WorkerFinish(resp)
    \/ WorkerExit
    \/ DeliverUpdate
    \/ CloseAndReopen
    \/ KillAndReopen

SpecRestart == InitRestart /\ [][NextRestart]_vars

InitHist == InitWith("hist", MaxReq, MaxItems)

\* The accumulated history: batches, failures of every kind, the cache
\* cleared, ticks of the interval timer, the clock advancing.
NextHist ==
    \/ TimerTick
    \/ ClickRefresh
    \/ ClearProducts
    \/ ClockTick
    \/ WorkerBegin
    \/ \E resp \in FeedResponses(feed) : WorkerFinish(resp)
    \/ WorkerExit
    \/ DeliverError
    \/ DeliverUpdate
    \/ CloseDialog

SpecHist == InitHist /\ [][NextHist]_vars

\* The same with pause and resume.
NextKeep ==
    \/ NextHist
    \/ TogglePause

SpecKeep == InitHist /\ [][NextKeep]_vars

InitLive == InitWith("live", 1, 0)

\* Refresh cycles under a timer that never stops ticking.
NextLive ==
    \/ TimerTick
    \/ WorkerBegin
    \/ \E resp \in FeedResponses(feed) : WorkerFinish(resp)
    \/ WorkerExit
    \/ DeliverAuto
    \/ ShotFire
    \/ DeliverError
    \/ DeliverUpdate
    \/ CloseDialog

\* The progress the program's scheduling gives: a started thread runs,
\* requests.post returns or raises within its timeout of 15 s (line 1453),
\* the event loop delivers every queued signal and fires every armed
\* single-shot timer, and a modal box is closed by the user (in the program
\* the next box opens over an open one; here it waits for its turn).
Fairness ==
    /\ WF_vars(WorkerBegin)
    /\ WF_vars(\E resp \in FeedResponses(feed) : WorkerFinish(resp))
    /\ WF_vars(WorkerExit)
    /\ WF_vars(DeliverAuto)
    /\ WF_vars(ShotFire)
    /\ WF_vars(DeliverError)
    /\ WF_vars(DeliverUpdate)
    /\ WF_vars(CloseDialog)

SpecLive == InitLive /\ [][NextLive]_vars /\ Fairness

\* ---------------------------------------------------------------- claims
Succeeded(resp) == ~resp.net /\ resp.status = HttpOk /\ resp.code = 0 /\ resp.hasData

BatchIds(products) == { products[i].id : i \in 1..Len(products) }

\* A step that applies the batch `products` to the Product Cache: update_products
\* running through, or returning from the alert box.
IsApplyOf(products) ==
    \/ /\ DeliverUpdate
       /\ Head(queue).products = products
       /\ products # <<>>
       /\ dialogs' = dialogs
    \/ /\ CloseDialog
       /\ dialogs[Len(dialogs)].kind = "alert"
       /\ dialogs[Len(dialogs)].products = products

\* The batch the next apply step would apply, if one is possible.
PendingBatches ==
    { queue[i].products : i \in 1..Len(queue) } \cup
    { dialogs[i].products : i \in 1..Len(dialogs) }

\* C1: under every interleaving of timer ticks, manual requests, cooldown
\* expiries and fetch completions, at most one request is in flight.
C1_AtMostOneInFlight == inflight <= 1

\* A refresh request arrived while the request of an earlier one is in flight.
C1_Witness == inflight = 1 /\ is_refresh /\ req_left = MaxReq - 2

\* C2: a refresh or continue request made while the controller is not Idle
\* leaves token, mode and remainingAutoPages as they are.
C2_BusyRequestIsNoOp ==
    [][ (~Idle /\ (TimerTick \/ ClickRefresh \/ ClickLoadMore))
          => UNCHANGED << next_id, is_refresh, auto_load_more, auto_load_pages >> ]_vars

SetMin(S) == CHOOSE x \in S : \A y \in S : x <= y

\* C3: since the index was last empty, the price stored for a name is the
\* minimum of the prices observed for that name, and a name has a record
\* exactly if a price was observed for it.
C3_MinOfObserved ==
    \A nm \in Names :
        IF observed[nm] = {}
        THEN nm \notin DOMAIN min_price_products
        ELSE /\ nm \in DOMAIN min_price_products
             /\ min_price_products[nm].price = SetMin(observed[nm])

\* The spec's scenario: ids 1 and 2, name A, 10.00 then 8.00.
C3_Witness ==
    /\ Len(product_cache) = 2
    /\ product_cache[1].id = "1" /\ product_cache[1].price = 1000
    /\ product_cache[2].id = "2" /\ product_cache[2].price = 800
    /\ "A" \in DOMAIN min_price_products
    /\ min_price_products["A"].price = 800

\* C4: from one state to the next the price stored for a name never increases
\* and no record disappears, unless the index is cleared.
C4_MinNeverIncreases ==
    [][ ClearMinPrice
        \/ \A nm \in DOMAIN min_price_products :
              /\ nm \in DOMAIN min_price_products'
              /\ min_price_products'[nm].price <= min_price_products[nm].price ]_vars

\* The record of A went from 10.00 down to 8.00, both observed on id 1.
C4_Witness ==
    /\ "A" \in DOMAIN min_price_products
    /\ min_price_products["A"].price = 800
    /\ min_price_products["A"].id = "1"
    /\ observed["A"] = {800, 1000}

\* C5: applying a batch adds one card per distinct id of the batch that the
\* cache did not hold and counts exactly those as new; ids already held
\* (also a second occurrence inside the batch) add nothing.
C5_UpsertCounts ==
    [][ \A products \in PendingBatches :
          IsApplyOf(products) =>
            LET fresh == BatchIds(products) \ CacheIds(product_cache)
            IN  /\ Len(product_cache') = Len(product_cache) + Cardinality(fresh)
                /\ new_products_count' = Cardinality(fresh)
                /\ CacheIds(product_cache') = CacheIds(product_cache) \cup BatchIds(products)
                /\ total_products_count' = Cardinality(CacheIds(product_cache')) ]_vars

\* A batch holding the same unseen id twice was applied: one card, one new.
C5_Witness ==
    /\ last_refresh_count = 2
    /\ new_products_count = 1
    /\ Len(product_cache) = 1

\* C6 as claimed: after a batch is applied, the card of each of its ids shows
\* the name and price of the batch's last record with that id.
C6_UpsertUpdatesFields ==
    [][ \A products \in PendingBatches :
          IsApplyOf(products) =>
            \A i \in 1..Len(products) :
                (\A j \in (i + 1)..Len(products) : products[j].id # products[i].id)
                => \E k \in 1..Len(product_cache') :
                       product_cache'[k] = AddProductCard(products[i]) ]_vars

\* C6 amended: applying a batch leaves every card the cache already holds as
\* it is, name and price included; a resighted id keeps its first-sighted values.
C6_UpsertKeepsFields ==
    [][ \A products \in PendingBatches :
          IsApplyOf(products) =>
            /\ Len(product_cache') >= Len(product_cache)
            /\ \A k \in 1..Len(product_cache) : product_cache'[k] = product_cache[k] ]_vars

\* Id 1 was sighted at 10.00 and resighted at 8.00: the card still shows 10.00.
C6_Witness ==
    /\ Len(product_cache) = 1
    /\ product_cache[1].id = "1" /\ product_cache[1].price = 1000
    /\ last_refresh_ids = {"1"}
    /\ new_products_count = 0
    /\ "A" \in DOMAIN min_price_products
    /\ min_price_products["A"].price = 800

\* C7: a fetch that succeeds with no nextId requests no continuation, whatever
\* the mode and the page budget: run() emits the batch alone, clears
\* auto_load_more, leaves the budget and the cooldown timers as they are and
\* returns with no request in flight.
C7_NoTokenEndsCycle ==
    [][ \A resp \in FeedResponses(feed) :
          (WorkerFinish(resp) /\ Succeeded(resp) /\ resp.nextId = None) =>
            /\ Len(queue') = Len(queue) + 1
            /\ queue'[Len(queue')].sig = "update"
            /\ ~auto_load_more'
            /\ auto_load_pages' = auto_load_pages
            /\ pending_shots' = pending_shots
            /\ wpc' = "exiting"
            /\ inflight' = 0 ]_vars

\* The first page of a refresh cycle (budget 3) came back with no nextId.
C7_Witness ==
    /\ wpc = "exiting"
    /\ last_result = "ok"
    /\ ~auto_load_more
    /\ auto_load_pages = AutoLoadPages
    /\ ~refresh_btn
    /\ next_id = None
    /\ pending_shots = 0
    /\ Len(queue) = 1
    /\ req_left = MaxReq - 1

\* C8: every refresh_data accounts for at most 3 fetches and every
\* load_more_data for at most one: a single refresh cycle issues at most 3.
C8_ThreeFetchesPerRefresh == credit >= 0

\* One refresh request, three fetches issued, each answered with a nextId.
C8_Witness ==
    /\ credit = 0
    /\ req_left = MaxReq - 1
    /\ auto_load_more
    /\ auto_load_pages = 1
    /\ next_id # None
    /\ Idle

\* C9: a request that raises or returns a status other than 200 emits one
\* error signal and nothing else: no continuation, no retry, the token and
\* the page budget untouched; the thread is started only by refresh_data,
\* load_more_data or a cooldown timer.
C9_FailureSchedulesNothing ==
    [][ /\ \A resp \in FeedResponses(feed) :
             (WorkerFinish(resp) /\ (resp.net \/ resp.status # HttpOk)) =>
               /\ queue' = Append(queue, Signal("error", <<>>))
               /\ pending_shots' = pending_shots
               /\ UNCHANGED << next_id, is_refresh, auto_load_more, auto_load_pages >>
               /\ wpc' = "exiting"
        /\ (wpc # "begin" /\ wpc' = "begin") =>
               (TimerTick \/ ClickRefresh \/ ClickLoadMore \/ ShotFire) ]_vars

\* The error box of a failed first fetch is open and nothing is scheduled.
C9_Witness ==
    /\ dialogs # <<>>
    /\ dialogs[1].kind = "error"
    /\ last_result = "fail"
    /\ Idle
    /\ queue = <<>>
    /\ ~refresh_btn
    /\ ~load_more_btn
    /\ req_left = MaxReq - 1

\* C10: once a failed fetch has been reported and the controller is Idle, both
\* manual triggers are enabled, whether or not the scheduler is paused.
C10_ManualAcceptedAfterFailure ==
    (last_result = "fail" /\ Idle /\ queue = <<>> /\ dialogs = <<>>)
        => (refresh_btn /\ load_more_btn)

\* The records of a batch priced at or below t, in the order of the batch.
RECURSIVE AtOrBelow(_, _)
AtOrBelow(batch, t) ==
    IF batch = <<>> THEN <<>>
    ELSE (IF Head(batch).price > t THEN <<>> ELSE << Head(batch) >>)
         \o AtOrBelow(Tail(batch), t)

RECURSIVE WellFormed(_)
WellFormed(items) ==
    IF items = <<>> THEN <<>>
    ELSE (IF Head(items).ok THEN << Head(items) >> ELSE <<>>)
         \o WellFormed(Tail(items))

\* C15: the batch run() emits for a successful response holds the normalized
\* form of every well-formed item, in the order of the response, wherever the
\* malformed items stand; it is the batch update_products then receives.
C15_MalformedSkipped ==
    [][ \A resp \in FeedResponses(feed) :
          (WorkerFinish(resp) /\ Succeeded(resp)) =>
            LET wf == WellFormed(resp.items)
            IN  /\ Len(queue') = Len(queue) + 1
                /\ queue'[Len(queue')].sig = "update"
                /\ queue'[Len(queue')].products
                       = [k \in 1..Len(wf) |-> Normalize(wf[k])] ]_vars

\* A malformed item stood between two well-formed ones: ids 1 and 3 have
\* their cards, in this order, and the name of the malformed item has no
\* min-price record.
C15_Witness ==
    /\ items_left = 0
    /\ last_refresh_count = 2
    /\ Len(product_cache) = 2
    /\ product_cache[1].id = "1"
    /\ product_cache[2].id = "3"
    /\ DOMAIN min_price_products = {"A"}

\* The settings in memory, as a record.
SettingsNow == [price_alert_threshold |-> price_alert_threshold,
                price_alert_enabled |-> price_alert_enabled,
                refresh_interval |-> refresh_interval]

\* C12: closing the program (save) and starting it again (load) gives back
\* the Product Cache with every field of every record, the Min-Price Index
\* and the settings, the refresh interval included.
C12_SaveLoadRoundTrip ==
    [][ CloseAndReopen =>
          /\ product_cache' = product_cache
          /\ min_price_products' = min_price_products
          /\ SettingsNow' = SettingsNow ]_vars

\* A step that starts the program.
IsStartup == CloseAndReopen \/ KillAndReopen \/ \E s \in Stores : CrashInSave(s)

\* C13: whatever the state of the three files, startup completes, a store
\* whose file is missing or corrupt is empty (the settings: the defaults), and
\* a store whose file is valid holds what the file holds.
C13_StoresDegradeAlone ==
    [][ IsStartup =>
          /\ started'
          /\ IF files'.cache = "valid"
             THEN /\ Len(product_cache') = Len(disk_cache')
                  /\ \A k \in 1..Len(disk_cache') :
                        /\ product_cache'[k].id = disk_cache'[k].id
                        /\ product_cache'[k].name = disk_cache'[k].name
                        /\ product_cache'[k].price = disk_cache'[k].price
             ELSE product_cache' = <<>>
          /\ IF files'.min = "valid"
             THEN min_price_products' = disk_min'
             ELSE min_price_products' = EmptyMap
          /\ IF files'.settings = "valid"
             THEN /\ price_alert_enabled' = disk_settings'.price_alert_enabled
                  /\ price_alert_threshold' = disk_settings'.price_alert_threshold
             ELSE /\ price_alert_enabled' = FALSE
                  /\ price_alert_threshold' = 0 ]_vars

\* C14: when the process dies while a store is being saved over a good file,
\* the next start loads for that store either what the file held before or
\* what was being saved.
C14_CrashKeepsSnapshot ==
    [][ \A s \in Stores :
          (CrashInSave(s) /\ files[s] = "valid") =>
            CASE s = "min" ->
                   min_price_products' \in { disk_min, min_price_products }
              [] s = "cache" ->
                   product_cache' \in
                     { LoadProductCache("valid", disk_cache),
                       LoadProductCache("valid", SaveCache(product_cache)) }
              [] s = "settings" ->
                   [price_alert_threshold |-> price_alert_threshold',
                    price_alert_enabled |-> price_alert_enabled',
                    api_cooldown |-> api_cooldown']
                     \in { disk_settings,
                           SaveSettings(price_alert_enabled,
                                        price_alert_threshold,
                                        api_cooldown) } ]_vars

\* C16: while is_paused holds, a tick of the interval timer changes nothing
\* of the worker, the buttons or the countdown, and a click on refresh or on
\* load-more made when the controller is Idle starts the thread.
C16_PausedTicksOnly ==
    [][ /\ (is_paused /\ TimerTick) =>
              UNCHANGED << wpc, next_id, is_refresh, auto_load_more, auto_load_pages,
                           refresh_btn, load_more_btn, remaining_time, queue,
                           pending_shots >>
        /\ (is_paused /\ Idle /\ (ClickRefresh \/ ClickLoadMore)) =>
              wpc' = "begin" ]_vars

\* Paused with the timer running again after an interval change: one request
\* was a tick that did nothing, the other a load-more click from Idle that
\* started the thread.
C16_Witness ==
    /\ is_paused
    /\ timer_active
    /\ req_left = MaxReq - 2
    /\ wpc = "begin"
    /\ mode = "continue"
    /\ credit = 1
    /\ refresh_btn

\* C17: batches are applied in the order their fetches completed.  The
\* batches held by open alert boxes were emitted before every batch still
\* queued and, among themselves, in the order the boxes opened; so whenever a
\* batch is applied, no alert box is left holding a batch not yet applied.
C17_AppliedInFetchOrder ==
    [][ \A products \in PendingBatches :
          IsApplyOf(products) =>
            \A i \in 1..Len(dialogs') : dialogs'[i].kind # "alert" ]_vars

\* A step of the background thread.
IsWorkerStep ==
    WorkerBegin \/ WorkerExit \/ \E resp \in FeedResponses(feed) : WorkerFinish(resp)

\* C18: the Product Cache and the Min-Price Index change only in steps of the
\* GUI thread; no step of the worker thread changes either.
C18_WorkerNeverWrites ==
    [][ IsWorkerStep => UNCHANGED << product_cache, min_price_products >> ]_vars

\* C19: a refresh requested when the controller is Idle sets the refresh mode
\* with a page budget of 3 and starts the thread, and the request run() then
\* builds for a refresh carries no nextId and clears the stored one, whatever
\* it was.
C19_RefreshResetsToken ==
    [][ /\ (Idle /\ (ClickRefresh \/ (TimerTick /\ ~is_paused))) =>
              /\ is_refresh'
              /\ auto_load_more'
              /\ auto_load_pages' = AutoLoadPages
              /\ wpc' = "begin"
        /\ (WorkerBegin /\ is_refresh) =>
              /\ request' = None
              /\ next_id' = None
              /\ ~is_refresh'
              /\ inflight' = 1 ]_vars

\* A refresh was requested from Idle while the nextId of an earlier cycle is
\* stored; the thread is about to build the request.
C19_Witness ==
    /\ wpc = "begin"
    /\ is_refresh
    /\ next_id # None
    /\ auto_load_pages = AutoLoadPages
    /\ mode = "refresh"
    /\ req_left = MaxReq - 2
    /\ pending_shots = 0
    /\ NoAutoQueued

\* C20: the fetch of a load-more requested when the controller is Idle
\* carries the stored nextId, and its completion requests no continuation,
\* also when the response names a further page.
C20_ManualContinueOnce ==
    [][ /\ (mode = "continue" /\ WorkerBegin) => request' = next_id
        /\ \A resp \in FeedResponses(feed) :
              (mode = "continue" /\ WorkerFinish(resp)) =>
                 /\ \A i \in 1..Len(queue') : queue'[i].sig # "auto"
                 /\ pending_shots' = 0 ]_vars

\* ------------------------------------------------------------------- C21
\* C21: a fetch that fails (the request raises, the status is not 200, the
\* code is not 0, data is null) leaves the Product Cache and the Min-Price
\* Index as they were: the worker's step changes neither and hands over no
\* product, and the delivery of what it emitted (the error messages, the
\* empty batch) changes neither.
C21_FailureKeepsHistory ==
    [][ /\ \A resp \in { r \in FeedResponses(feed) : wpc = "fetching" /\ ~Succeeded(r) } :
               WorkerFinish(resp)
               => /\ product_cache' = product_cache
                  /\ min_price_products' = min_price_products
                  /\ \A k \in Len(queue) + 1 .. Len(queue') :
                         queue'[k].products = <<>>
        /\ DeliverError \/ (DeliverUpdate /\ Head(queue).products = <<>>)
           => /\ product_cache' = product_cache
              /\ min_price_products' = min_price_products ]_vars

\* After a page of one item at 8.00 was applied, a code != 0 response that
\* carried an item at 7.00 has failed: the index still holds 8.00.
C21_Witness ==
    /\ req_left = MaxReq - 2
    /\ items_left = MaxItems - 2
    /\ last_result = "fail"
    /\ last_refresh_count = 1
    /\ Len(product_cache) = 1
    /\ "A" \in DOMAIN min_price_products
    /\ min_price_products["A"].price = 800
    /\ queue = <<>>

\* ------------------------------------------------------------------- C22
PosIn(cache, id) == CHOOSE k \in 1..Len(cache) : cache[k].id = id

\* C22: the displayed cards are a permutation of the Product Cache in which
\* every card whose id was in the batch applied last precedes every other
\* card, and the cards of each of the two groups are in the order in which
\* the cache got them; ids of earlier batches are in the second group.
C22_RecentFirst ==
    /\ Len(grid) = Len(product_cache)
    /\ { grid[k] : k \in 1..Len(grid) } =
       { product_cache[k] : k \in 1..Len(product_cache) }
    /\ \A i, j \in 1..Len(grid) :
          i < j =>
             /\ grid[j].id \in last_refresh_ids => grid[i].id \in last_refresh_ids
             /\ (grid[i].id \in last_refresh_ids <=> grid[j].id \in last_refresh_ids)
                => PosIn(product_cache, grid[i].id) < PosIn(product_cache, grid[j].id)

\* Id 1 came with an earlier batch, id 2 with the last one: id 2 is shown
\* first although the cache got it second.
C22_Witness ==
    /\ Len(product_cache) = 2
    /\ product_cache[1].id = "1"
    /\ product_cache[2].id = "2"
    /\ last_refresh_ids = {"2"}
    /\ grid = << product_cache[2], product_cache[1] >>

\* ------------------------------------------------------------------- C23
\* C23: a fetch that fails emits exactly one error message, whatever the
\* kind of the failure.
C23_OneErrorPerFailure ==
    [][ \A resp \in FeedResponses(feed) :
            WorkerFinish(resp) /\ ~Succeeded(resp)
            => Cardinality({ k \in Len(queue) + 1 .. Len(queue') :
                                queue'[k].sig = "error" }) = 1 ]_vars

\* ------------------------------------------------------------------- C24
\* C24: cards never expire: in every step other than clear_product_history
\* (batches applied, fetches failing, pause and resume, ticks of the interval
\* timer, time passing) every id of the Product Cache stays in it and its
\* size does not decrease.
C24_NoExpiry ==
    [][ ~ClearProducts
        => /\ CacheIds(product_cache) \subseteq CacheIds(product_cache')
           /\ Len(product_cache') >= Len(product_cache) ]_vars

\* Two cards are held, a later fetch has failed, time has passed and the
\* monitor is paused.
C24_Witness ==
    /\ Len(product_cache) = 2
    /\ last_result = "fail"
    /\ is_paused
    /\ now > 0
    /\ queue = <<>>
    /\ dialogs = <<>>

\* ------------------------------------------------------------------- C25
\* C25: clear_product_history leaves no card, an empty grid and a total of 0;
\* a batch applied to the cleared cache counts every one of its ids as new,
\* also an id the cache held before the clear.
C25_ClearForgets ==
    [][ /\ ClearProducts
           => /\ product_cache' = <<>>
              /\ grid' = <<>>
              /\ total_products_count' = 0
        /\ \A products \in PendingBatches :
              IsApplyOf(products) /\ product_cache = <<>>
              => /\ new_products_count' = Cardinality(BatchIds(products))
                 /\ CacheIds(product_cache') = BatchIds(products) ]_vars

\* Id 1 was applied at 10.00, the cache was cleared, and id 1 came again at
\* 8.00: it was counted as new and its card shows 8.00.
C25_Witness ==
    /\ items_left = MaxItems - 2
    /\ observed["A"] = {800, 1000}
    /\ Len(product_cache) = 1
    /\ product_cache[1].id = "1"
    /\ product_cache[1].price = 800
    /\ last_refresh_count = 1
    /\ new_products_count = 1
    /\ total_products_count = 1
    /\ queue = <<>>

\* ------------------------------------------------------------------- C26
\* The well-formed items of a response that carry the name nm.
CandidatesFor(resp, nm) ==
    { resp.items[i] : i \in { j \in 1..Len(resp.items) :
                                 resp.items[j].ok /\ resp.items[j].name = nm } }

\* C26: while a successful response is processed, the record of a name is
\* replaced iff the name had no record or one of the candidates is strictly
\* cheaper than the stored price, and the new record is that of a candidate
\* read at the time of processing; when every candidate costs the stored
\* price or more, the whole record (id, url and timestamp of the earlier
\* observation included) is left as it was.
C26_ReplaceIffStrictlyLower ==
    [][ \A resp \in { r \in FeedResponses(feed) : wpc = "fetching" /\ Succeeded(r) } :
          WorkerFinish(resp) =>
            \A nm \in Names :
              LET cands == CandidatesFor(resp, nm)
                  had   == nm \in DOMAIN min_price_products
                  lower == { c \in cands :
                               ~had \/ c.price < min_price_products[nm].price }
              IN  IF lower # {}
                  THEN /\ nm \in DOMAIN min_price_products'
                       /\ \E c \in lower :
                             min_price_products'[nm] = MinPriceRecord(Normalize(c), now)
                       /\ \A c \in cands : min_price_products'[nm].price <= c.price
                  ELSE /\ had <=> nm \in DOMAIN min_price_products'
                       /\ had => min_price_products'[nm] = min_price_products[nm] ]_vars

\* Id 1 was seen at 8.00 when the clock read 0, and id 2 at 8.00 in a later
\* response: the record is still the one of id 1, with its timestamp.
C26_Witness ==
    /\ items_left = MaxItems - 2
    /\ now = 1
    /\ last_result = "ok"
    /\ Len(product_cache) = 2
    /\ product_cache[1].id = "1"
    /\ product_cache[2].id = "2"
    /\ last_refresh_ids = {"2"}
    /\ "A" \in DOMAIN min_price_products
    /\ min_price_products["A"] =
          MinPriceRecord(Normalize(Item("1", "A", 800)), 0)

\* ------------------------------------------------------------------- C27
\* The auto_load_signal emits among the signals a step appends to the queue.
AutoEmitted ==
    Cardinality({ k \in Len(queue) + 1 .. Len(queue') : queue'[k].sig = "auto" })

\* C27: when a fetch succeeds with a nextId, the token is stored; with
\* auto_load_more set (Refresh mode) and more than one page left the page
\* count goes down by one and one continuation is requested, which starts no
\* fetch by itself: its delivery arms the cooldown timer, and only that
\* timer or a request starts the thread.  With one page left, or with
\* auto_load_more unset (Continue mode), the token is stored and nothing is
\* requested.
C27_ContinuationAfterCooldown ==
    [][ /\ \A resp \in FeedResponses(feed) :
              WorkerFinish(resp) /\ Succeeded(resp) /\ resp.nextId # None
              => /\ next_id' = resp.nextId
                 /\ wpc' = "exiting"
                 /\ pending_shots' = pending_shots
                 /\ IF auto_load_more /\ auto_load_pages > 1
                    THEN /\ auto_load_pages' = auto_load_pages - 1
                         /\ AutoEmitted = 1
                    ELSE /\ auto_load_pages' = auto_load_pages
                         /\ AutoEmitted = 0
        /\ DeliverAuto => pending_shots' = pending_shots + 1 /\ wpc' = wpc
        /\ wpc # "begin" /\ wpc' = "begin"
           => \/ ShotFire /\ pending_shots > 0
              \/ TimerTick \/ ClickRefresh \/ ClickLoadMore ]_vars

\* One refresh was requested; its first fetch returned t1 with three pages
\* left, and the second fetch is in flight with t1 and two pages left.
C27_Witness ==
    /\ req_left = MaxReq - 1
    /\ mode = "refresh"
    /\ wpc = "fetching"
    /\ request = "t1"
    /\ next_id = "t1"
    /\ auto_load_more
    /\ auto_load_pages = AutoLoadPages - 1
    /\ pending_shots = 0

\* ------------------------------------------------------------------- C28
\* C28: a response with status 200 whose code is not 0 is handled like any
\* failed fetch: an error is emitted, the stored token stays as it was
\* whatever nextId the response carries, and no continuation is requested.
C28_CodeFailureKeepsToken ==
    [][ \A resp \in FeedResponses(feed) :
            WorkerFinish(resp) /\ ~resp.net /\ resp.status = HttpOk /\ resp.code # 0
            => /\ \E k \in Len(queue) + 1 .. Len(queue') : queue'[k].sig = "error"
               /\ next_id' = next_id
               /\ AutoEmitted = 0
               /\ auto_load_pages' = auto_load_pages ]_vars

\* ------------------------------------------------------------------- C29
\* C29: a fetch started by the cooldown timer (an auto-continuation) is sent
\* with the token stored by the fetch before it, whatever ticks and clicks
\* arrived in the meantime: it never starts again from the null token.
C29_ContinuationCarriesToken ==
    [][ WorkerBegin /\ starter = "shot"
        => /\ request' = next_id
           /\ request' # None ]_vars

\* ------------------------------------------------------------------- C30
\* C30: every continuation chain ends: once a refresh has left Idle, the
\* controller is eventually Idle again, with no fetch in flight, no
\* continuation queued and no cooldown pending.
C30_ChainTerminates ==
    (mode = "refresh" /\ ~Idle) ~> (Idle /\ inflight = 0)

\* C32: in every state of the running program the configuration is within
\* its ranges: refresh_interval in 5..300, api_cooldown a whole number of
\* seconds of at least 1000 ms, price_alert_threshold not negative.
C32_ConfigInRange ==
    started =>
        /\ refresh_interval \in 5..300
        /\ api_cooldown >= 1000
        /\ api_cooldown % 1000 = 0
        /\ price_alert_threshold >= 0

\* C31 as stated: every one-second tick of a running scheduler takes one off
\* the countdown, and every refresh trigger and every interval change sets it
\* to the refresh interval.
C31_CountdownDecrements ==
    [][ /\ (UpdateCountdown /\ ~is_paused /\ timer_active) =>
              remaining_time' = remaining_time - 1
        /\ ((TimerTick /\ ~is_paused) \/ ClickRefresh) =>
              remaining_time' = refresh_interval
        /\ \A v \in Intervals :
              UpdateRefreshInterval(v) => remaining_time' = v ]_vars

\* C31, amended: a one-second tick of a running scheduler takes one off a
\* positive countdown and sets a countdown of zero to the refresh interval;
\* every refresh trigger and every interval change sets it to the refresh
\* interval.
C31_CountdownWraps ==
    [][ /\ (UpdateCountdown /\ ~is_paused /\ timer_active) =>
              remaining_time' = IF remaining_time > 0
                                THEN remaining_time - 1
                                ELSE refresh_interval
        /\ ((TimerTick /\ ~is_paused) \/ ClickRefresh) =>
              remaining_time' = refresh_interval
        /\ \A v \in Intervals :
              UpdateRefreshInterval(v) => remaining_time' = v ]_vars

\* The interval was changed and the countdown has been ticked down from it to
\* zero, with no refresh in between.
C31_Witness ==
    /\ refresh_interval # DefaultRefreshInterval
    /\ remaining_time = 0
    /\ req_left = MaxReq
    /\ ~is_paused

\* C33: for every name of the index persisted by the last save, the index in
\* memory holds the persisted record itself unless a strictly lower price has
\* been observed for the name since the index was loaded, and then it holds a
\* record with a strictly lower price.
C33_MinimumAcrossRestart ==
    (started /\ files.min = "valid") =>
        \A nm \in DOMAIN disk_min :
            /\ nm \in DOMAIN min_price_products
            /\ min_price_products[nm].price <= disk_min[nm].price
            /\ (\A p \in observed[nm] : p >= disk_min[nm].price)
                  => min_price_products[nm] = disk_min[nm]
            /\ (\E p \in observed[nm] : p < disk_min[nm].price)
                  => min_price_products[nm].price < disk_min[nm].price

\* The index was saved with name A at 10.00, the program started again, and a
\* later fetch has brought name A at 8.00.
C33_Witness ==
    /\ started
    /\ files.min = "valid"
    /\ "A" \in DOMAIN disk_min
    /\ disk_min["A"].price = 1000
    /\ observed["A"] = {800, 1000}
    /\ min_price_products["A"].price = 800
    /\ last_result = "ok"

\* The index was saved with name A at 8.00 from listing 2, the program
\* started again, and a later fetch has brought listing 3 at 8.00.
C33_WitnessEqual ==
    /\ started
    /\ files.min = "valid"
    /\ "A" \in DOMAIN disk_min
    /\ disk_min["A"].id = "2"
    /\ min_price_products["A"] = disk_min["A"]
    /\ last_result = "ok"
    /\ \E k \in 1..Len(product_cache) : product_cache[k].id = "3"

\* C37: with no store cleared, every record of the Product Cache has an entry
\* of the Min-Price Index under its name, at a price no higher than its own.
C37_CacheCoveredByIndex ==
    started =>
        \A k \in 1..Len(product_cache) :
            /\ product_cache[k].name \in DOMAIN min_price_products
            /\ min_price_products[product_cache[k].name].price
                  <= product_cache[k].price

\* Listing 1 at 10.00 is in the cache while the index holds its name at 8.00,
\* after a restart.
C37_Witness ==
    /\ started
    /\ \E k \in 1..Len(product_cache) :
          /\ product_cache[k].price = 1000
          /\ min_price_products[product_cache[k].name].price = 800
    /\ files.cache = "valid"
    /\ req_left = 0

\* ------------------------------------------------------------------- C34
\* C34: a fetch that succeeds with no nextId leaves the stored nextId as it
\* was; a load-more click changes neither the stored nextId nor is_refresh,
\* and the run() that finds is_refresh unset sends the stored nextId, so the
\* fetch of a load-more made after a last page asks for that page again.
C34_StaleTokenKept ==
    [][ /\ \A resp \in { r \in FeedResponses(feed) :
                           wpc = "fetching" /\ Succeeded(r) /\ r.nextId = None } :
               WorkerFinish(resp) => next_id' = next_id
        /\ ClickLoadMore => (next_id' = next_id /\ is_refresh' = is_refresh)
        /\ (WorkerBegin /\ ~is_refresh) =>
               (request' = next_id /\ next_id' = next_id) ]_vars

\* A refresh got nextId t1, its continuation came back with no nextId, and
\* the fetch of a load-more clicked afterwards, the third fetch in all, is in
\* flight with t1.
C34_Witness ==
    /\ mode = "continue"
    /\ wpc = "fetching"
    /\ request = "t1"
    /\ next_id = "t1"
    /\ last_result = "ok"
    /\ auto_load_pages = AutoLoadPages - 1
    /\ ~auto_load_more
    /\ ~load_more_btn
    /\ credit = 1
    /\ pending_shots = 0
    /\ queue = <<>>
    /\ req_left = MaxReq - 2

\* ------------------------------------------------------------------- C35
\* C35: a load-more clicked when the controller is Idle and no nextId is
\* stored starts one fetch, sent with no nextId, and the completion of that
\* fetch requests no continuation, also when the response names a further
\* page.
C35_ContinueFromNothingOnce ==
    [][ /\ (ClickLoadMore /\ Idle /\ next_id = None) => wpc' = "begin"
        /\ (WorkerBegin /\ mode = "continue" /\ next_id = None) =>
               request' = None
        /\ \A resp \in { r \in FeedResponses(feed) :
                           wpc = "fetching" /\ mode = "continue"
                           /\ request = None } :
               WorkerFinish(resp) =>
                  /\ \A i \in Len(queue) + 1 .. Len(queue') :
                         queue'[i].sig # "auto"
                  /\ auto_load_pages' = auto_load_pages ]_vars

\* ------------------------------------------------------------------- C36
\* C36 as stated: the countdown is always between 0 and the refresh interval,
\* and no step taken while the scheduler is paused changes it.
C36_FrozenWhilePaused ==
    /\ [](started => (0 <= remaining_time /\ remaining_time <= refresh_interval))
    /\ [][ (is_paused /\ is_paused') => remaining_time' = remaining_time ]_vars

\* C36, amended: the countdown is always between 0 and the refresh interval;
\* while the scheduler is paused the one-second ticks and the ticks of the
\* interval timer leave it as it is, and a step that changes it (a refresh
\* click, the interval changed) sets it to the refresh interval.
C36_TicksFrozenWhilePaused ==
    /\ [](started => (0 <= remaining_time /\ remaining_time <= refresh_interval))
    /\ [][ /\ (is_paused /\ (UpdateCountdown \/ TimerTick)) =>
                 remaining_time' = remaining_time
           /\ (is_paused /\ is_paused' /\ remaining_time' # remaining_time) =>
                 /\ remaining_time' = refresh_interval'
                 /\ ClickRefresh \/ \E v \in Intervals : UpdateRefreshInterval(v)
         ]_vars

\* The scheduler is paused, the interval timer runs again since the interval
\* was changed, and a tick of it has been ignored: no refresh cycle has ever
\* started and the countdown stands at the new interval.
C36_Witness ==
    /\ is_paused
    /\ timer_active
    /\ remaining_time = refresh_interval
    /\ refresh_interval # DefaultRefreshInterval
    /\ req_left = MaxReq - 1
    /\ refresh_btn
    /\ mode = "none"

\* ------------------------------------------------------------------- C38
\* C38: clearing the Product Cache leaves the Min-Price Index, its file and
\* the worker's nextId, mode flags and page budget as they are; clearing the
\* Min-Price Index leaves the Product Cache, the grid, the counters and the
\* same worker fields as they are.
C38_ClearsIndependent ==
    [][ /\ ClearProducts =>
              UNCHANGED << min_price_products, disk_min, files, wrkFlags,
                           wrkRun, queue, pending_shots >>
        /\ ClearMinPrice =>
              UNCHANGED << product_cache, grid, total_products_count,
                           last_refresh_ids, last_refresh_count, disk_cache,
                           wrkFlags, wrkRun, queue, pending_shots >> ]_vars

\* A page with a further page was applied and the index then cleared: the
\* card is in the cache, the index is empty, the nextId is stored and the
\* continuation is on its way.
C38_Witness ==
    /\ Len(product_cache) = 1
    /\ min_price_products = EmptyMap
    /\ files.min = "valid"
    /\ next_id = "t1"
    /\ auto_load_more
    /\ auto_load_pages = AutoLoadPages - 1
    /\ pending_shots = 1
    /\ queue = <<>>

\* ------------------------------------------------------------------- C39
\* C39: a change of the refresh interval made while the scheduler is paused
\* leaves it paused and starts nothing; as long as it is paused the ticks of
\* the interval timer, which that change has started again, start no refresh
\* cycle; resume starts the timer with the interval set last, and a running
\* timer of a scheduler that is not paused always has that interval.
C39_IntervalChangeKeepsPause ==
    /\ []((started /\ ~is_paused /\ timer_active)
             => timer_interval = refresh_interval)
    /\ [][ /\ \A v \in Intervals :
                 (is_paused /\ UpdateRefreshInterval(v)) =>
                    /\ is_paused'
                    /\ refresh_interval' = v
                    /\ UNCHANGED << wrkFlags, wrkRun, queue, mode, credit >>
           /\ (is_paused /\ TimerTick) =>
                 UNCHANGED << wrkFlags, wrkRun, queue, mode, credit,
                              refresh_btn >>
           /\ (is_paused /\ TogglePause) =>
                 /\ ~is_paused'
                 /\ timer_active'
                 /\ timer_interval' = refresh_interval ]_vars

\* The interval was changed while the scheduler was paused, which started
\* the interval timer again, and every request since was a tick of it that
\* started nothing.
C39_Witness ==
    /\ is_paused
    /\ timer_active
    /\ timer_interval # DefaultRefreshInterval
    /\ req_left = 0
    /\ mode = "none"
    /\ Idle
    /\ credit = 0

\* ------------------------------------------------------------------- C40
\* C40: no record of the Product Cache has the empty id, and no batch the
\* worker hands over holds a product with the empty id: an item without
\* c2cItemsId is skipped.
C40_NoEmptyId ==
    /\ \A k \in 1..Len(product_cache) : product_cache[k].id # ""
    /\ \A i \in 1..Len(queue) :
          \A j \in 1..Len(queue[i].products) : queue[i].products[j].id # ""

====
